---- MODULE Spec2Model ----
(***************************************************************************)
(* RuneLog (src/src/runelog/runelog.py): a filesystem-backed tracker of    *)
(* experiments, runs and registered model versions.                        *)
(*                                                                         *)
(* The state is the tracking root on disk (.mlruns and .registry), the two *)
(* fields the RuneLog object keeps about the active run, the frames of the *)
(* start_run context managers that are open, and the position of every     *)
(* process that is inside get_or_create_experiment or register_model.      *)
(*                                                                         *)
(* File and directory names that the code computes with str(), int() and   *)
(* isdigit() are sequences of digits (0..9; run ids use the hex digits     *)
(* 0..15), so that the conversions are computed and not assumed.           *)
(***************************************************************************)
EXTENDS Integers, Sequences, FiniteSets, TLC

\* ---------------------------------------------------------------- bounds
\* start_run frames (with-blocks) that one RuneLog object ever opens
MaxScopes == 2
\* the greatest experiment id: .mlruns holds at most MaxExpId + 1 directories
MaxExpId == 2
\* versions registered per model name
MaxVersions == 2
\* versions registered of the model whose latest version is loaded
MaxLatest == 10
\* processes that call into the store concurrently
MaxProcs == 2

Scopes == 1..MaxScopes
Procs == 1..MaxProcs

\* Python's None; also the falsy value tested by "if not self._active_run_id"
None == <<>>

\* ------------------------------------------------------- str, int, isdigit
RECURSIVE str(_)
\* str(n) for an int n >= 0: its decimal digits, most significant first
str(n) == IF n < 10 THEN <<n>> ELSE str(n \div 10) \o <<n % 10>>

RECURSIVE int(_)
\* int(s) for a string of decimal digits
int(s) == IF Len(s) = 0 THEN 0 ELSE 10 * int(SubSeq(s, 1, Len(s) - 1)) + s[Len(s)]

\* str.isdigit(): non-empty, every character a decimal digit
isdigit(s) == Len(s) > 0 /\ \A i \in 1..Len(s) : s[i] \in 0..9

RECURSIVE SetMax(_)
\* max() of a non-empty set of ints
SetMax(S) == LET x == CHOOSE y \in S : TRUE
             IN  IF S = {x} THEN x
                 ELSE LET m == SetMax(S \ {x}) IN IF x > m THEN x ELSE m

\* ------------------------------------------------------------ input values
\* experiment names given to get_or_create_experiment
Names == {"default", "a", "b"}
\* experiment ids given to start_run: the default experiment and the last id
\* within the bound
ExpIds == {str(0), str(MaxExpId)}
\* the values uuid.uuid4().hex[:8] may return (hex strings, here one digit long)
RunIds == {<<10>>, <<11>>}
\* the local files of the caller: path (directory, base name) -> content
LocalFiles == (<<"a", "model.pkl">> :> <<"raw", "A">>) @@ (<<"b", "model.pkl">> :> <<"raw", "B">>)
MissingPath == <<"no", "such.file">>
\* objects handed to log_model
Models == {"objA"}
ModelNames == {"m", "n"}

\* os.path.basename of a path
basename(path) == path[Len(path)]

\* a local path checked by nothing: every path is taken to exist
exists_unchecked(local_path) == TRUE

\* os.path.exists(local_path), for a path of the caller
exists(local_path) == local_path \in DOMAIN LocalFiles

\* keys of params and metrics are strings, written as sequences of characters
\* f"{key}.json"
json_file(key) == key \o <<".", "j", "s", "o", "n">>

\* str.rfind(".") on a sequence of characters, counted from 1 (0: not found)
rfind_dot(p) ==
  LET dots == {i \in 1..Len(p) : p[i] = "."}
  IN  IF dots = {} THEN 0 ELSE SetMax(dots)

\* os.path.splitext(name)[0] for a name without separators: the extension
\* starts at the last dot, unless only dots come before it
splitext_root(p) ==
  LET dotIndex == rfind_dot(p)
  IN  IF dotIndex > 0 /\ \E i \in 1..(dotIndex - 1) : p[i] # "."
      THEN SubSeq(p, 1, dotIndex - 1)
      ELSE p

\* json.dump({"value": value}, f) for a number value >= 0: the text written
json_dump_value(value) == <<"value", str(value)>>

\* json.load(f)["value"]
json_load_value(text) == int(text[2])

\* joblib.dump(model, path): the bytes written
dump(model) == <<"joblib", model>>

\* --------------------------------------------------------------- variables
VARIABLES
  mlruns,                \* the .mlruns directory
  registry,              \* the .registry directory
  active_run_id,         \* RuneLog._active_run_id
  active_experiment_id,  \* RuneLog._active_experiment_id
  scope,                 \* the frames of start_run, one per with-block
  proc,                  \* the concurrent callers
  ret                    \* the outcome of the last completed call

vars == <<mlruns, registry, active_run_id, active_experiment_id, scope, proc, ret>>

\* .mlruns: dirs = the entries of .mlruns (experiment directories); meta = the
\* meta.json of an experiment directory, where there is one; runs = the run
\* directories, keyed by <<experiment directory, run id>>
EmptyMlruns == [dirs |-> {}, meta |-> <<>>, runs |-> <<>>]

\* .registry: models = the model directories; versions = the version
\* directories <<model, version>>; payload = their model.joblib, meta = their
\* meta.json, where present
EmptyRegistry == [models |-> {}, versions |-> {}, payload |-> <<>>, meta |-> <<>>]

IdleScope == [pc |-> "idle", run_path |-> None, meta |-> None, yielded |-> None, exit |-> "none"]
IdleProc == [pc |-> "idle", op |-> "none", name |-> "", run_id |-> None, src |-> None,
             local |-> None, result |-> "none", value |-> None]
NoRet == [op |-> "none", result |-> "none", value |-> None]

\* RuneLog.__init__ on an empty root directory
Init ==
  /\ mlruns = EmptyMlruns
  /\ registry = EmptyRegistry
  /\ active_run_id = None
  /\ active_experiment_id = None
  /\ scope = [s \in Scopes |-> IdleScope]
  /\ proc = [p \in Procs |-> IdleProc]
  /\ ret = NoRet

\* a write that leaves an entry that is there as it is (open mode "x")
PutIfAbsent(f, k, v) == f @@ (k :> v)

\* f with key k set to v, whether or not k was in its domain
Put(f, k, v) == (k :> v) @@ f

\* ----------------------------------------------------- experiments and runs
\* A meta.json whose text is not one JSON document is the record last dumped
\* into it with two more fields: size, the length of the file, and intact, the
\* number of characters of the dumped text that are still at its start.
\* json.load raises JSONDecodeError for such a file.
parses(content) == "size" \notin DOMAIN content

\* a file just opened with mode "w": it is there and holds nothing
EmptyFile == [size |-> 0, intact |-> 0]

\* get_or_create_experiment, the scan: the experiment directories whose
\* meta.json carries this name
ExperimentsNamed(fs, name) ==
  {e \in fs.dirs : e \in DOMAIN fs.meta /\ parses(fs.meta[e]) /\ fs.meta[e].name = name}

\* the experiment directories whose meta.json json.load cannot read
Unparsable(fs) == {e \in fs.dirs : e \in DOMAIN fs.meta /\ ~parses(fs.meta[e])}

\* list_experiments(): the meta.json of every experiment directory that has
\* one (as a set: os.listdir gives no order); json.load raises for a file
\* that is not JSON
list_experiments(fs) ==
  IF Unparsable(fs) # {}
  THEN {[result |-> "JSONDecodeError", value |-> None]}
  ELSE {[result |-> "ok", value |-> {fs.meta[e] : e \in fs.dirs \cap DOMAIN fs.meta}]}

\* a call of list_experiments()
ListExperiments ==
  /\ \E o \in list_experiments(mlruns) :
       ret' = [op |-> "list_experiments", result |-> o.result, value |-> o.value]
  /\ UNCHANGED <<mlruns, registry, active_run_id, active_experiment_id, scope, proc>>

\* get_or_create_experiment, the id of a new experiment
NewExperimentId(fs) == str(Cardinality(fs.dirs))

\* os.makedirs(experiment_path, exist_ok=True)
MakeExperimentDir(fs, id) == [fs EXCEPT !.dirs = @ \cup {id}]

\* the meta.json of experiment id, written with mode "w"
WriteExperimentMeta(fs, id, name) ==
  [fs EXCEPT !.meta = Put(@, id, [experiment_id |-> id, name |-> name])]

\* get_or_create_experiment(name) run without interruption: the ids it may
\* return (os.listdir gives no order) with the .mlruns it leaves
GetOrCreateOutcomes(fs, name) ==
  IF ExperimentsNamed(fs, name) # {}
  THEN {[id |-> e, fs |-> fs] : e \in ExperimentsNamed(fs, name)}
  ELSE LET id == NewExperimentId(fs)
       IN  {[id |-> id, fs |-> WriteExperimentMeta(MakeExperimentDir(fs, id), id, name)]}

\* a call of get_or_create_experiment(name) by the single caller
GetOrCreateExperiment(name) ==
  /\ ExperimentsNamed(mlruns, name) # {} \/ Cardinality(mlruns.dirs) <= MaxExpId
  /\ \E o \in GetOrCreateOutcomes(mlruns, name) :
       /\ mlruns' = o.fs
       /\ ret' = [op |-> "get_or_create_experiment", result |-> "ok", value |-> o.id]
  /\ UNCHANGED <<registry, active_run_id, active_experiment_id, scope, proc>>

\* _get_run_path without lines 49-50: the path is joined whatever the ids are
get_run_path_unchecked(exp_id, run_id) == <<exp_id, run_id>>

\* _get_run_path: the directory of the active run (None stands for the raise
\* of NoActiveRun)
get_run_path(exp_id, run_id) == IF run_id = None THEN None ELSE <<exp_id, run_id>>

\* a run directory as start_run's three makedirs leave it when it is new
NewRunDir == [meta |-> None, params |-> <<>>, metrics |-> <<>>, artifacts |-> <<>>]

\* os.makedirs(run_path/params | metrics | artifacts, exist_ok=True): creates
\* the experiment directory and the run directory where missing, and keeps
\* what is there
MakeRunDirs(fs, run_path) ==
  [fs EXCEPT !.dirs = @ \cup {run_path[1]},
             !.runs = IF run_path \in DOMAIN @ THEN @ ELSE Put(@, run_path, NewRunDir)]

\* the meta.json of the run at run_path, written with mode "w"
WriteRunMeta(fs, run_path, meta) == [fs EXCEPT !.runs[run_path].meta = meta]

\* a finally block that tells an error from a return
FinalStatusFailedOnRaise(how) == IF how = "raise" THEN "FAILED" ELSE "FINISHED"

\* the status start_run's finally block persists; how is "return" or "raise"
FinalStatus(how) == "FINISHED"

\* a finally block without lines 143-144: the active ids stay as they are
ActiveKeptAfterExit(current) == current

\* what start_run's finally block leaves in _active_run_id and
\* _active_experiment_id
ActiveAfterExit(current) == None

\* start_run(experiment_id) up to its yield, in frame s (frame s belongs to the
\* s-th with-block entered); uid is the value of uuid.uuid4().hex[:8]
StartRun(s, experiment_id, uid) ==
  /\ scope[s].pc = "idle"
  /\ \A t \in Scopes : t < s => scope[t].pc # "idle"
  /\ \E o \in (IF str(0) \notin mlruns.dirs
               THEN GetOrCreateOutcomes(mlruns, "default")
               ELSE {[id |-> None, fs |-> mlruns]}) :
       LET run_path == get_run_path(experiment_id, uid)
           meta == [run_id |-> uid, experiment_id |-> experiment_id, status |-> "RUNNING"]
       IN  /\ active_experiment_id' = experiment_id
           /\ active_run_id' = uid
           /\ mlruns' = WriteRunMeta(MakeRunDirs(o.fs, run_path), run_path, meta)
           /\ scope' = [scope EXCEPT ![s] = [pc |-> "open", run_path |-> run_path,
                                             meta |-> meta, yielded |-> uid, exit |-> "none"]]
  /\ ret' = [op |-> "start_run", result |-> "ok", value |-> None]
  /\ UNCHANGED <<registry, proc>>

\* the with-block of frame s ends, by a return or by an exception that leaves
\* it: start_run's finally block
ExitRun(s, how) ==
  /\ scope[s].pc = "open"
  /\ LET meta == [scope[s].meta EXCEPT !.status = FinalStatus(how)]
     IN  /\ mlruns' = WriteRunMeta(mlruns, scope[s].run_path, meta)
         /\ scope' = [scope EXCEPT ![s].pc = "closed", ![s].meta = meta, ![s].exit = how]
  /\ active_run_id' = ActiveAfterExit(active_run_id)
  /\ active_experiment_id' = ActiveAfterExit(active_experiment_id)
  /\ ret' = [op |-> "end_run", result |-> "ok", value |-> None]
  /\ UNCHANGED <<registry, proc>>

\* ------------------------------------------------------------------ logging
\* the outcome of a logging call
LogRet(op, result) == [op |-> op, result |-> result, value |-> None]

\* a file opened with mode "x" in place of "w": one that is there is kept
WriteRunFileExclusive(fs, run_path, area, file, content) ==
  [fs EXCEPT !.runs[run_path][area] = PutIfAbsent(@, file, content)]

\* a write that stays in a buffer of the process: nothing reaches the file
WriteRunFileBuffered(fs, run_path, area, file, content) == fs

\* a file written (mode "w", or copied over) in one of the three areas of the
\* run directory at run_path: "params", "metrics" or "artifacts"
WriteRunFile(fs, run_path, area, file, content) ==
  [fs EXCEPT !.runs[run_path][area] = Put(@, file, content)]

\* the part the four logging calls share: _get_run_path raises NoActiveRun or
\* gives the directory, and the file is written there (open() and shutil.copy
\* raise FileNotFoundError where the directory is missing)
Log(op, area, file, content) ==
  LET run_path == get_run_path(active_experiment_id, active_run_id)
  IN  /\ IF run_path = None
         THEN /\ ret' = LogRet(op, "NoActiveRun")
              /\ UNCHANGED mlruns
         ELSE IF run_path \notin DOMAIN mlruns.runs
         THEN /\ ret' = LogRet(op, "FileNotFoundError")
              /\ UNCHANGED mlruns
         ELSE /\ mlruns' = WriteRunFile(mlruns, run_path, area, file, content)
              /\ ret' = LogRet(op, "ok")
      /\ UNCHANGED <<registry, active_run_id, active_experiment_id, scope, proc>>

\* the directory of the active run
ActiveRun(fs) == fs.runs[get_run_path(active_experiment_id, active_run_id)]

\* log_param(key, value), called from the code of frame c
LogParam(c, key, value) ==
  Log("log_param", "params", json_file(key), json_dump_value(value))

\* log_metric(key, value), called from the code of frame c
LogMetric(c, key, value) ==
  Log("log_metric", "metrics", json_file(key), json_dump_value(value))

\* log_artifact(local_path), called from the code of frame c
LogArtifact(c, local_path) ==
  IF get_run_path(active_experiment_id, active_run_id) # None
       /\ ~exists(local_path)
  THEN /\ ret' = LogRet("log_artifact", "ArtifactNotFound")
       /\ UNCHANGED <<mlruns, registry, active_run_id, active_experiment_id, scope, proc>>
  ELSE Log("log_artifact", "artifacts", basename(local_path),
           IF local_path \in DOMAIN LocalFiles THEN LocalFiles[local_path] ELSE None)

\* log_model(model, name), called from the code of frame c
LogModel(c, model, name) == Log("log_model", "artifacts", name, dump(model))

\* ----------------------------------------------------------- model registry
\* names of the artifacts asked for in register_model
ArtifactNames == {"model.pkl"}
\* the tags argument of register_model ("tags or {}")
NoTags == <<>>
\* the values datetime.now().isoformat() returns during a registration
Timestamps == {"t1"}

\* register_model, the search for the run: the experiment directories that
\* hold a directory named run_id (the loop takes the first in os.listdir order)
FindRun(fs, run_id) == {e \in fs.dirs : <<e, run_id>> \in DOMAIN fs.runs}

\* [d for d in os.listdir(registry_model_path) if d.isdigit()]
existing_versions(reg, model_name) ==
  {v \in {mv[2] : mv \in {x \in reg.versions : x[1] = model_name}} : isdigit(v)}

\* new_version without the "+ 1": str(max([int(v) for v in existing_versions] or [0]))
new_version_no_increment(reg, model_name) ==
  LET ints == {int(v) : v \in existing_versions(reg, model_name)}
  IN  str(SetMax(IF ints = {} THEN {0} ELSE ints))

\* str(max([int(v) for v in existing_versions] or [0]) + 1)
new_version(reg, model_name) ==
  LET ints == {int(v) : v \in existing_versions(reg, model_name)}
  IN  str(SetMax(IF ints = {} THEN {0} ELSE ints) + 1)

\* os.makedirs(registry_model_path, exist_ok=True)
MakeModelDir(reg, model_name) == [reg EXCEPT !.models = @ \cup {model_name}]

\* os.makedirs(version_path, exist_ok=True)
MakeVersionDir(reg, model_name, version) ==
  [reg EXCEPT !.versions = @ \cup {<<model_name, version>>}]

\* shutil.copy(source_artifact_path, version_path/model.joblib)
CopyModel(reg, model_name, version, content) ==
  [reg EXCEPT !.payload = Put(@, <<model_name, version>>, content)]

\* the meta.json of a version, written with mode "w"
WriteVersionMeta(reg, model_name, version, run_id, now, tags) ==
  [reg EXCEPT !.meta = Put(@, <<model_name, version>>,
                           [model_name |-> model_name, version |-> version,
                            source_run_id |-> run_id, registration_timestamp |-> now,
                            tags |-> tags])]

RegRet(result, value) ==
  [op |-> "register_model", result |-> result, value |-> value]

\* what os.path.join(run_path, "artifacts", artifact_name) names: the artifacts
\* directory itself for the empty name, else a file of it, or nothing
source_artifact(run, artifact_name) ==
  IF artifact_name = "" THEN "directory"
  ELSE IF artifact_name \in DOMAIN run.artifacts THEN "file"
  ELSE "missing"

\* register_model(run_id, artifact_name, model_name, tags); now is the value of
\* datetime.now().isoformat(). shutil.copy raises IsADirectoryError for a
\* source that is a directory, after the two makedirs.
register_model(run_id, artifact_name, model_name, tags, now) ==
  /\ IF FindRun(mlruns, run_id) = {}
     THEN /\ ret' = RegRet("RunNotFound", None)
          /\ UNCHANGED registry
     ELSE \E e \in FindRun(mlruns, run_id) :
            LET run == mlruns.runs[<<e, run_id>>]
                v == new_version(registry, model_name)
            IN  IF source_artifact(run, artifact_name) = "missing"
                THEN /\ ret' = RegRet("ArtifactNotFound", None)
                     /\ UNCHANGED registry
                ELSE IF source_artifact(run, artifact_name) = "directory"
                THEN /\ registry' = MakeVersionDir(MakeModelDir(registry, model_name),
                                                   model_name, v)
                     /\ ret' = RegRet("IsADirectoryError", None)
                ELSE /\ registry' =
                          WriteVersionMeta(
                            CopyModel(MakeVersionDir(MakeModelDir(registry, model_name),
                                                     model_name, v),
                                      model_name, v, run.artifacts[artifact_name]),
                            model_name, v, run_id, now, tags)
                     /\ ret' = RegRet("ok", v)
  /\ UNCHANGED <<mlruns, active_run_id, active_experiment_id, scope, proc>>

\* a call of register_model by the single caller, while the model name has
\* fewer than MaxVersions version directories
RegisterModel(run_id, artifact_name, model_name, tags, now) ==
  /\ Cardinality(existing_versions(registry, model_name)) < MaxVersions
  /\ register_model(run_id, artifact_name, model_name, tags, now)

\* the version argument "latest", a string as the version names are
latest == <<"l", "a", "t", "e", "s", "t">>

\* joblib.load of what joblib.dump wrote
joblib_load(bytes) == bytes[2]

\* os.path.exists(os.path.join(registry_dir, model_name)): the empty name
\* gives .registry itself
model_path_exists(reg, model_name) == model_name = "" \/ model_name \in reg.models

\* [d for d in os.listdir(model_path) if d.isdigit()]; the entries of
\* .registry itself are the model names, and none here is made of digits
listed_versions(reg, model_name) ==
  IF model_name = "" THEN {} ELSE existing_versions(reg, model_name)

RECURSIVE lex_less(_, _)
\* a < b for two strings of digits compared as str compares them
lex_less(a, b) ==
  IF Len(a) = 0 THEN Len(b) > 0
  ELSE IF Len(b) = 0 THEN FALSE
  ELSE IF a[1] # b[1] THEN a[1] < b[1]
  ELSE lex_less(Tail(a), Tail(b))

\* max(versions) without the int(): the greatest name as a string
latest_version_lexicographic(versions) ==
  CHOOSE v \in versions : \A w \in versions : w = v \/ lex_less(w, v)

\* str(max([int(v) for v in versions]))
latest_version(versions) == str(SetMax({int(v) : v \in versions}))

\* os.path.exists(model_path/version_to_load/model.joblib)
final_model_path_exists(reg, model_name, version_to_load) ==
  model_name # "" /\ <<model_name, version_to_load>> \in DOMAIN reg.payload

LoadRet(result, value) ==
  [op |-> "load_registered_model", result |-> result, value |-> value]

\* load_registered_model(model_name, version) on the registry reg: what it
\* raises or returns
load_registered_model(reg, model_name, version) ==
  IF ~model_path_exists(reg, model_name)
  THEN LoadRet("ModelNotFound", None)
  ELSE IF version = latest /\ listed_versions(reg, model_name) = {}
  THEN LoadRet("NoVersionsFound", None)
  ELSE LET version_to_load ==
             IF version = latest
             THEN latest_version(listed_versions(reg, model_name))
             ELSE version
       IN  IF ~final_model_path_exists(reg, model_name, version_to_load)
           THEN LoadRet("ModelVersionNotFound", None)
           ELSE LoadRet("ok", joblib_load(reg.payload[<<model_name, version_to_load>>]))

\* a call of load_registered_model(model_name, version)
LoadRegisteredModel(model_name, version) ==
  /\ ret' = load_registered_model(registry, model_name, version)
  /\ UNCHANGED <<mlruns, registry, active_run_id, active_experiment_id, scope, proc>>

\* the new tags in the place of the old ones
update_replace(d, t) == t

\* dict.update: d with the keys of t set to t's values
update(d, t) == t @@ d

TagsRet(op, result, value) == [op |-> op, result |-> result, value |-> value]

\* add_model_tags with open(meta_path, "w") and no test of os.path.exists: a
\* version without meta.json gets one that holds the tags
AddModelTagsCreating(model_name, version, tags) ==
  /\ registry' = [registry EXCEPT !.meta =
                    Put(@, <<model_name, version>>,
                        [tags |-> update(IF <<model_name, version>> \in DOMAIN registry.meta
                                         THEN registry.meta[<<model_name, version>>].tags
                                         ELSE NoTags, tags)])]
  /\ ret' = [op |-> "add_model_tags", result |-> "ok", value |-> None]
  /\ UNCHANGED <<mlruns, active_run_id, active_experiment_id, scope, proc>>

\* a call of add_model_tags(model_name, version, tags): meta.json of the
\* version is read, its tags updated, and the file rewritten
AddModelTags(model_name, version, tags) ==
  /\ IF <<model_name, version>> \notin DOMAIN registry.meta
     THEN /\ ret' = TagsRet("add_model_tags", "ModelVersionNotFound", None)
          /\ UNCHANGED registry
     ELSE LET meta == registry.meta[<<model_name, version>>]
              old == IF "tags" \in DOMAIN meta THEN meta.tags ELSE NoTags
          IN  /\ registry' = [registry EXCEPT !.meta[<<model_name, version>>] =
                                  [k \in DOMAIN meta \cup {"tags"} |->
                                     IF k = "tags" THEN update(old, tags) ELSE meta[k]]]
              /\ ret' = TagsRet("add_model_tags", "ok", None)
  /\ UNCHANGED <<mlruns, active_run_id, active_experiment_id, scope, proc>>

\* a call of get_model_tags(model_name, version)
GetModelTags(model_name, version) ==
  /\ IF <<model_name, version>> \notin DOMAIN registry.meta
     THEN ret' = TagsRet("get_model_tags", "ModelVersionNotFound", None)
     ELSE LET meta == registry.meta[<<model_name, version>>]
          IN  IF ~parses(meta)
              THEN ret' = TagsRet("get_model_tags", "JSONDecodeError", None)
              ELSE ret' = TagsRet("get_model_tags", "ok",
                                  IF "tags" \in DOMAIN meta THEN meta.tags ELSE NoTags)
  /\ UNCHANGED <<mlruns, registry, active_run_id, active_experiment_id, scope, proc>>

RECURSIVE sorted_reverse_str(_)
\* sorted(versions, reverse=True) without key=int: the names compared as strings
sorted_reverse_str(versions) ==
  IF versions = {} THEN <<>>
  ELSE LET v == latest_version_lexicographic(versions)
       IN  <<v>> \o sorted_reverse_str(versions \ {v})

RECURSIVE sorted_reverse(_)
\* sorted(versions, key=int, reverse=True)
sorted_reverse(versions) ==
  IF versions = {} THEN <<>>
  ELSE LET v == latest_version(versions)
       IN  <<v>> \o sorted_reverse(versions \ {v})

RECURSIVE versions_data(_, _, _)
\* the loop of get_model_versions over the sorted versions: the meta.json of
\* each version that has one
versions_data(reg, model_name, versions) ==
  IF versions = <<>> THEN <<>>
  ELSE (IF <<model_name, Head(versions)>> \in DOMAIN reg.meta
        THEN <<reg.meta[<<model_name, Head(versions)>>]>>
        ELSE <<>>) \o versions_data(reg, model_name, Tail(versions))

VersionsRet(result, value) == [op |-> "get_model_versions", result |-> result, value |-> value]

\* get_model_versions raising ModelNotFound for a model path that is not there
GetModelVersionsRaising(model_name) ==
  /\ ret' = IF ~model_path_exists(registry, model_name)
            THEN VersionsRet("ModelNotFound", None)
            ELSE VersionsRet("ok", versions_data(registry, model_name,
                                                 sorted_reverse(listed_versions(registry,
                                                                                model_name))))
  /\ UNCHANGED <<mlruns, registry, active_run_id, active_experiment_id, scope, proc>>

\* a call of get_model_versions(model_name)
GetModelVersions(model_name) ==
  /\ LET listed == sorted_reverse(listed_versions(registry, model_name))
     IN  IF ~model_path_exists(registry, model_name)
         THEN ret' = VersionsRet("ok", <<>>)
         ELSE IF \E i \in DOMAIN listed :
                   /\ <<model_name, listed[i]>> \in DOMAIN registry.meta
                   /\ ~parses(registry.meta[<<model_name, listed[i]>>])
         THEN ret' = VersionsRet("JSONDecodeError", None)
         ELSE ret' = VersionsRet("ok", versions_data(registry, model_name, listed))
  /\ UNCHANGED <<mlruns, registry, active_run_id, active_experiment_id, scope, proc>>

\* meta.get("tags", {}) of a version's meta.json
stored_tags(reg, model_name, version) ==
  LET meta == reg.meta[<<model_name, version>>]
  IN  IF "tags" \in DOMAIN meta THEN meta.tags ELSE NoTags

\* "del current_tags[key]" for every key of remove_tags that is in the dict
without_keys(d, keys) == [k \in DOMAIN d \ keys |-> d[k]]

\* the registry command "tag" (cli.py, manage_tags) with its --add options,
\* already split at "=" into key and value, and its --remove options: the tags
\* are read with get_model_tags, changed in memory and saved with
\* add_model_tags
ManageTags(model_name, version, add_tags, remove_tags) ==
  /\ IF <<model_name, version>> \notin DOMAIN registry.meta
     THEN /\ ret' = TagsRet("tag", "ModelVersionNotFound", None)
          /\ UNCHANGED registry
     ELSE LET meta == registry.meta[<<model_name, version>>]
              current_tags == add_tags @@ without_keys(stored_tags(registry, model_name,
                                                                   version), remove_tags)
          IN  /\ registry' = [registry EXCEPT !.meta[<<model_name, version>>] =
                                  [k \in DOMAIN meta \cup {"tags"} |->
                                     IF k = "tags"
                                     THEN update(stored_tags(registry, model_name, version),
                                                 current_tags)
                                     ELSE meta[k]]]
              /\ ret' = TagsRet("tag", "ok", current_tags)
  /\ UNCHANGED <<mlruns, active_run_id, active_experiment_id, scope, proc>>

\* ------------------------------------------------------------------ reading
\* get_run_details, lines 165-179: the dict read from the files of a params or
\* metrics directory. Files that give the same key are read in os.listdir
\* order and the last one read stays: every order is an outcome.
ReadValues(dir) ==
  LET keys == {splitext_root(f) : f \in DOMAIN dir}
      picks == {p \in [keys -> DOMAIN dir] : \A k \in keys : splitext_root(p[k]) = k}
  IN  {[k \in keys |-> json_load_value(dir[p[k]])] : p \in picks}

\* get_run_details(run_id): the values it may return (None: no experiment
\* directory holds a directory named run_id); artifacts is the listing of the
\* artifacts directory, taken as a set
RunDetails(fs, run_id) ==
  IF FindRun(fs, run_id) = {}
  THEN {None}
  ELSE UNION {LET run == fs.runs[<<e, run_id>>]
              IN  {[params |-> ps, metrics |-> ms, artifacts |-> DOMAIN run.artifacts] :
                     ps \in ReadValues(run.params), ms \in ReadValues(run.metrics)} :
              e \in FindRun(fs, run_id)}

\* get_run_details(run_id) for any string: with the empty run_id,
\* os.path.join(mlruns_dir, exp_id, run_id) is the directory of the experiment,
\* which holds no params, metrics or artifacts directory
get_run_details(fs, run_id) ==
  IF run_id = <<>> /\ fs.dirs # {}
  THEN {[params |-> <<>>, metrics |-> <<>>, artifacts |-> {}]}
  ELSE RunDetails(fs, run_id)

\* a call of get_run_details(run_id)
GetRunDetails(run_id) ==
  /\ \E d \in get_run_details(mlruns, run_id) :
       ret' = [op |-> "get_run_details", result |-> "ok", value |-> d]
  /\ UNCHANGED <<mlruns, registry, active_run_id, active_experiment_id, scope, proc>>

\* the column of the run id, and the prefix of the columns of the params
run_id_column == <<"r", "u", "n", "_", "i", "d">>
param_prefix == <<"p", "a", "r", "a", "m", "_">>

\* the values of a row: a run id is a string, a param or metric a number
StrCell(s) == <<"str", s>>
NumCell(v) == <<"num", <<v>>>>

\* {"run_id": run_id, **params, **metrics} with the keys of params prefixed:
\* of two entries with one key the later one stays
run_row(run_id, params, metrics) ==
  LET prefixed == {param_prefix \o k : k \in DOMAIN params}
      param_columns == [c \in prefixed |->
                          NumCell(params[CHOOSE k \in DOMAIN params : param_prefix \o k = c])]
      metric_columns == [c \in DOMAIN metrics |-> NumCell(metrics[c])]
  IN  metric_columns @@ param_columns @@ (run_id_column :> StrCell(run_id))

RunRet(result, value) == [op |-> "get_run", result |-> result, value |-> value]

\* get_run(run_id): what it may raise or return. The first experiment of
\* os.listdir that holds a directory run_id is read (every order is an
\* outcome); os.listdir(params_path) has no test of the path and raises
\* FileNotFoundError in the directory of an experiment, which the empty
\* run_id names.
get_run(fs, run_id) ==
  IF run_id = <<>> /\ fs.dirs # {}
  THEN {RunRet("FileNotFoundError", None)}
  ELSE IF FindRun(fs, run_id) = {}
  THEN {RunRet("ok", None)}
  ELSE UNION {LET run == fs.runs[<<e, run_id>>]
              IN  {RunRet("ok", run_row(run_id, ps, ms)) :
                     ps \in ReadValues(run.params), ms \in ReadValues(run.metrics)} :
              e \in FindRun(fs, run_id)}

\* a call of get_run(run_id)
GetRun(run_id) ==
  /\ ret' \in get_run(mlruns, run_id)
  /\ UNCHANGED <<mlruns, registry, active_run_id, active_experiment_id, scope, proc>>

\* os.path.exists(os.path.join(mlruns_dir, experiment_id)): the empty id
\* gives .mlruns itself
experiment_path_exists(fs, experiment_id) == experiment_id = <<>> \/ experiment_id \in fs.dirs

\* the entries of experiment_path that are directories: the run directories
\* of an experiment, or the experiment directories of .mlruns
listed_run_dirs(fs, experiment_id) ==
  IF experiment_id = <<>> THEN fs.dirs
  ELSE {key[2] : key \in {k \in DOMAIN fs.runs : k[1] = experiment_id}}

\* pandas: the value of a cell whose row has no entry for the column
NaN == <<"nan", <<>>>>

\* pd.DataFrame() of no rows
EmptyFrame == [columns |-> {}, rows |-> <<>>]

\* a < b for two index values of one kind: strings as str compares them,
\* numbers by value
cell_less(a, b) == IF a[1] = "str" THEN lex_less(a[2], b[2]) ELSE a[2][1] < b[2][1]

\* pd.DataFrame(all_runs_data).set_index("run_id").sort_index(), where
\* data[r] is the dict appended for the directory r: the columns are the keys
\* of the dicts other than "run_id", a row holds NaN where its dict has no
\* entry, and the rows are put in ascending order of their "run_id" entries
\* (rows with equal entries in any order). Sorting an index that holds
\* strings and numbers raises TypeError.
sorted_frames(data) ==
  LET ids == DOMAIN data
      columns == UNION {DOMAIN data[r] : r \in ids} \ {run_id_column}
      row(r) == [index |-> data[r][run_id_column],
                 cells |-> [c \in columns |-> IF c \in DOMAIN data[r] THEN data[r][c]
                                                ELSE NaN]]
      orders == {s \in [1..Cardinality(ids) -> ids] :
                   /\ \A i, j \in DOMAIN s : i # j => s[i] # s[j]
                   /\ \A i, j \in DOMAIN s :
                        i < j => ~cell_less(row(s[j]).index, row(s[i]).index)}
  IN  IF \E r, q \in ids : data[r][run_id_column][1] # data[q][run_id_column][1]
      THEN {[result |-> "TypeError", value |-> None]}
      ELSE {[result |-> "ok",
             value |-> [columns |-> columns, rows |-> [i \in DOMAIN s |-> row(s[i])]]] :
            s \in orders}

\* the outcome o of load_results(experiment_id)
ResultsRet(experiment_id, o) ==
  [op |-> "load_results", experiment_id |-> experiment_id, result |-> o.result,
   value |-> o.value]

\* load_results without the test of lines 326-327: pd.DataFrame([]) has no
\* column "run_id" and set_index raises KeyError
frame_of_unchecked(data) ==
  IF DOMAIN data = {} THEN {[result |-> "KeyError", value |-> None]}
  ELSE sorted_frames(data)

\* lines 326-329: the frame made of the dicts gathered
frame_of(data) ==
  IF DOMAIN data = {} THEN {[result |-> "ok", value |-> EmptyFrame]}
  ELSE sorted_frames(data)

\* load_results(experiment_id): what it may raise or return. get_run is
\* called for every directory listed, and the dicts it returns are kept.
load_results(fs, experiment_id) ==
  IF ~experiment_path_exists(fs, experiment_id)
  THEN {[result |-> "ExperimentNotFound", value |-> None]}
  ELSE LET listed == listed_run_dirs(fs, experiment_id)
           found == {r \in listed : get_run(fs, r) # {RunRet("ok", None)}}
           picks == {g \in [found -> UNION {get_run(fs, r) : r \in found}] :
                       \A r \in found : g[r] \in get_run(fs, r)}
       IN  UNION {frame_of([r \in found |-> g[r].value]) : g \in picks}

\* a call of load_results(experiment_id)
LoadResults(experiment_id) ==
  /\ \E o \in load_results(mlruns, experiment_id) : ret' = ResultsRet(experiment_id, o)
  /\ UNCHANGED <<mlruns, registry, active_run_id, active_experiment_id, scope, proc>>

\* ------------------------------------------------------------ specifications
\* the ways a with-block ends
Exits == {"return", "raise"}

\* the logging calls made from the code of frame c
LogCall(c) ==
  \/ LogParam(c, <<"l", "r">>, 1)
  \/ LogMetric(c, <<"a", "c", "c">>, 1)
  \/ \E path \in {<<"a", "model.pkl">>, MissingPath} : LogArtifact(c, path)
  \/ \E model \in Models : LogModel(c, model, "model.pkl")

\* one RuneLog object, one caller at a time: runs of the default experiment
\* and everything logged to them
NextRuns ==
  \/ \E s \in Scopes, uid \in RunIds : StartRun(s, str(0), uid)
  \/ \E s \in Scopes, how \in Exits : ExitRun(s, how)
  \/ \E c \in Scopes : LogCall(c)

SpecRuns == Init /\ [][NextRuns]_vars

\* one RuneLog object, one caller at a time: experiments and the runs started
\* in them
NextExp ==
  \/ \E name \in Names : GetOrCreateExperiment(name)
  \/ \E s \in Scopes, e \in ExpIds, uid \in RunIds : StartRun(s, e, uid)
  \/ \E s \in Scopes, how \in Exits : ExitRun(s, how)

SpecExp == Init /\ [][NextExp]_vars

\* one RuneLog object, one caller at a time: runs that log a model, and the
\* registration of their artifacts
NextReg ==
  \/ \E s \in Scopes, uid \in RunIds : StartRun(s, str(0), uid)
  \/ \E s \in Scopes : ExitRun(s, "return")
  \/ \E c \in Scopes, model \in Models : LogModel(c, model, "model.pkl")
  \/ \E run_id \in RunIds, a \in ArtifactNames, m \in ModelNames, now \in Timestamps :
       RegisterModel(run_id, a, m, NoTags, now)

SpecReg == Init /\ [][NextReg]_vars

\* keys and values given to log_param and log_metric: the empty string and
\* "lr"; "acc"
ParamKeys == {<<>>, <<"l", "r">>}
MetricKeys == {<<"a", "c", "c">>}
FirstValue == 1
SecondValue == 2
Values == {FirstValue, SecondValue}

\* the active run holds this file in this area: the caller logs SecondValue
\* only for a key that was logged before
HoldsFile(area, file) ==
  /\ get_run_path(active_experiment_id, active_run_id) \in DOMAIN mlruns.runs
  /\ file \in DOMAIN ActiveRun(mlruns)[area]

\* one RuneLog object, one caller at a time: runs, the params and metrics
\* logged to them (a key is logged with FirstValue, and again with
\* SecondValue), and what get_run_details reads back
LogSteps(param_keys, metric_keys) ==
  \/ \E s \in Scopes, uid \in RunIds : StartRun(s, str(0), uid)
  \/ \E s \in Scopes : ExitRun(s, "return")
  \/ \E c \in Scopes, key \in param_keys : LogParam(c, key, FirstValue)
  \/ \E c \in Scopes, key \in param_keys :
       HoldsFile("params", json_file(key)) /\ LogParam(c, key, SecondValue)
  \/ \E c \in Scopes, key \in metric_keys : LogMetric(c, key, FirstValue)
  \/ \E c \in Scopes, key \in metric_keys :
       HoldsFile("metrics", json_file(key)) /\ LogMetric(c, key, SecondValue)
  \/ \E run_id \in RunIds : GetRunDetails(run_id)

NextLog == LogSteps(ParamKeys, MetricKeys)

SpecLog == Init /\ [][NextLog]_vars

\* the same with the one param "lr" and the one metric "acc"
NextWrite == LogSteps({<<"l", "r">>}, MetricKeys)

SpecWrite == Init /\ [][NextWrite]_vars

\* one RuneLog object, one caller at a time: runs and the files logged to them
\* as artifacts: a/model.pkl, then b/model.pkl over it, and a path that does
\* not exist
NextArt ==
  \/ \E s \in Scopes, uid \in RunIds : StartRun(s, str(0), uid)
  \/ \E s \in Scopes : ExitRun(s, "return")
  \/ \E c \in Scopes : LogArtifact(c, <<"a", "model.pkl">>)
  \/ \E c \in Scopes :
       HoldsFile("artifacts", "model.pkl") /\ LogArtifact(c, <<"b", "model.pkl">>)
  \/ \E c \in Scopes : LogArtifact(c, MissingPath)
  \/ \E run_id \in RunIds : GetRunDetails(run_id)

SpecArt == Init /\ [][NextArt]_vars

\* artifact names given to register_model: the model logged, the empty name,
\* and a name nothing was logged under
RegArtifacts == {"model.pkl", "", "other.pkl"}

\* one RuneLog object, one caller at a time: runs that log a model, and
\* registrations that name a run or an artifact that may not be there
NextRegErr ==
  \/ \E s \in Scopes, uid \in RunIds : StartRun(s, str(0), uid)
  \/ \E s \in Scopes : ExitRun(s, "return")
  \/ \E c \in Scopes, model \in Models : LogModel(c, model, "model.pkl")
  \/ \E run_id \in RunIds, a \in RegArtifacts, now \in Timestamps :
       RegisterModel(run_id, a, "m", NoTags, now)

SpecRegErr == Init /\ [][NextRegErr]_vars

\* the objects logged as model.pkl before a registration
LatestModels == {"objA", "objB"}

\* one RuneLog object, one caller at a time: one run in which a model is
\* logged again and again, each state of it registered as a version of "m",
\* and the latest version loaded
NextLatest ==
  \/ StartRun(1, str(0), <<10>>)
  \/ \E model \in LatestModels : LogModel(1, model, "model.pkl")
  \/ \E now \in Timestamps :
       /\ Cardinality(existing_versions(registry, "m")) < MaxLatest
       /\ register_model(<<10>>, "model.pkl", "m", NoTags, now)
  \/ LoadRegisteredModel("m", latest)

SpecLatest == Init /\ [][NextLatest]_vars

\* model names and versions given to load_registered_model: the empty name,
\* "m" (the name that is registered) and "n"; "latest", "1" and "99"
LoadNames == {"", "m", "n"}
LoadVersions == {latest, str(1), str(99)}

\* one RuneLog object, one caller at a time: runs that log a model,
\* registrations of it as "m", and loads of names and versions that may not
\* be there
NextLoadErr ==
  \/ \E s \in Scopes, uid \in RunIds : StartRun(s, str(0), uid)
  \/ \E s \in Scopes : ExitRun(s, "return")
  \/ \E c \in Scopes, model \in Models : LogModel(c, model, "model.pkl")
  \/ \E run_id \in RunIds, now \in Timestamps :
       RegisterModel(run_id, "model.pkl", "m", NoTags, now)
  \/ \E name \in LoadNames, version \in LoadVersions : LoadRegisteredModel(name, version)

SpecLoadErr == Init /\ [][NextLoadErr]_vars

\* the tags arguments of add_model_tags, and the versions they are given for
TagUpdates == {("status" :> "prod"), ("status" :> "dev"), ("owner" :> "a")}
TagVersions == {str(1), str(2), str(99)}

\* one RuneLog object, one caller at a time: a run that logs a model, its
\* registrations as "m" without tags, and the tags of the versions
NextTags ==
  \/ StartRun(1, str(0), <<10>>)
  \/ \E model \in Models : LogModel(1, model, "model.pkl")
  \/ \E now \in Timestamps : RegisterModel(<<10>>, "model.pkl", "m", NoTags, now)
  \/ \E version \in TagVersions, tags \in TagUpdates : AddModelTags("m", version, tags)
  \/ \E version \in TagVersions : GetModelTags("m", version)

SpecTags == Init /\ [][NextTags]_vars

\* the version names asked for: versions of "m", one that is none, and the
\* empty string
MissingVersions == {str(1), str(2), str(99), <<>>}

\* one caller at a time: a run that logs a model, registrations of it as "m"
\* (and of the artifacts directory, which leave a version directory without
\* meta.json), and tag calls on names and versions that may not be there
NextTagErr ==
  \/ StartRun(1, str(0), <<10>>)
  \/ LogModel(1, "objA", "model.pkl")
  \/ \E artifact_name \in {"model.pkl", ""}, now \in Timestamps :
       RegisterModel(<<10>>, artifact_name, "m", NoTags, now)
  \/ \E name \in LoadNames, version \in MissingVersions, tags \in TagUpdates :
       AddModelTags(name, version, tags)
  \/ \E name \in LoadNames, version \in MissingVersions : GetModelTags(name, version)

SpecTagErr == Init /\ [][NextTagErr]_vars

\* the --remove options of the command "tag"
TagRemovals == {{}, {"status"}, {"owner"}}

\* one caller at a time: a run that logs a model, its registrations as "m",
\* and the command "tag" adding and removing tags of the versions
NextTagCli ==
  \/ StartRun(1, str(0), <<10>>)
  \/ \E model \in Models : LogModel(1, model, "model.pkl")
  \/ \E now \in Timestamps : RegisterModel(<<10>>, "model.pkl", "m", NoTags, now)
  \/ \E version \in TagVersions, add_tags \in TagUpdates \cup {NoTags},
         remove_tags \in TagRemovals :
       ManageTags("m", version, add_tags, remove_tags)
  \/ \E version \in TagVersions : GetModelTags("m", version)

SpecTagCli == Init /\ [][NextTagCli]_vars

\* the run ids asked for: those of the runs, one that no run has, and the
\* empty string
LookupRunIds == RunIds \cup {<<12>>, <<>>}

\* one caller at a time: runs of the default experiment with a param and a
\* metric, and the lookups of runs by id
NextFind ==
  \/ \E s \in Scopes, uid \in RunIds : StartRun(s, str(0), uid)
  \/ \E s \in Scopes : ExitRun(s, "return")
  \/ \E c \in Scopes : LogParam(c, <<"l", "r">>, FirstValue)
  \/ \E c \in Scopes : LogMetric(c, <<"a", "c", "c">>, SecondValue)
  \/ \E run_id \in LookupRunIds : GetRunDetails(run_id)
  \/ \E run_id \in LookupRunIds : GetRun(run_id)

SpecFind == Init /\ [][NextFind]_vars

\* the experiment ids asked for in load_results: those of experiments, one
\* that no experiment has, and the empty string
ResultIds == {str(0), str(1), str(9), <<>>}

\* the names of the metrics logged: "acc", and two names that are the column
\* of another entry of the row
ResultMetrics == {<<"a", "c", "c">>, param_prefix \o <<"x">>, run_id_column}

\* one caller at a time: the experiment "a", runs of the default experiment
\* that log the param "x" and metrics, and the tables of the experiments
NextResults ==
  \/ GetOrCreateExperiment("a")
  \/ \E s \in Scopes, uid \in RunIds : StartRun(s, str(0), uid)
  \/ \E s \in Scopes : ExitRun(s, "return")
  \/ \E c \in Scopes : LogParam(c, <<"x">>, FirstValue)
  \/ \E c \in Scopes, key \in ResultMetrics : LogMetric(c, key, SecondValue)
  \/ \E e \in ResultIds : LoadResults(e)

SpecResults == Init /\ [][NextResults]_vars

\* one caller at a time: the experiment "a", runs of the default experiment
\* that log the metric "acc", and the tables of the two experiments
NextNoRuns ==
  \/ GetOrCreateExperiment("a")
  \/ \E s \in Scopes, uid \in RunIds : StartRun(s, str(0), uid)
  \/ \E c \in Scopes : LogMetric(c, <<"a", "c", "c">>, FirstValue)
  \/ \E e \in {str(0), str(1)} : LoadResults(e)

SpecNoRuns == Init /\ [][NextNoRuns]_vars

\* one caller at a time: runs started one after the other in the default
\* experiment, and the params and metrics logged in them
NextFinal ==
  \/ \E s \in Scopes, uid \in RunIds : StartRun(s, str(0), uid)
  \/ \E s \in Scopes, how \in Exits : ExitRun(s, how)
  \/ \E c \in Scopes, value \in {FirstValue, SecondValue} : LogParam(c, <<"l", "r">>, value)
  \/ \E c \in Scopes, value \in {FirstValue, SecondValue} :
       LogMetric(c, <<"a", "c", "c">>, value)

SpecFinal == Init /\ [][NextFinal]_vars

\* one caller at a time: the experiment "a", runs of the default experiment
\* and of "a" that log the metric "acc", and the tables of the two
NextCross ==
  \/ GetOrCreateExperiment("a")
  \/ \E s \in Scopes, e \in {str(0), str(1)}, uid \in RunIds :
       /\ e \in DOMAIN mlruns.meta \/ e = str(0)
       /\ StartRun(s, e, uid)
  \/ \E s \in Scopes : ExitRun(s, "return")
  \/ \E c \in Scopes, value \in {FirstValue, SecondValue} :
       LogMetric(c, <<"a", "c", "c">>, value)
  \/ \E e \in {str(0), str(1)} : LoadResults(e)

SpecCross == Init /\ [][NextCross]_vars

\* tracker.delete_experiment(name): class RuneLog defines no such method (the
\* CLI command says "not yet implemented"), so the attribute lookup raises
\* AttributeError and no file is touched
DeleteExperiment(name) ==
  /\ ret' = [op |-> "delete_experiment", result |-> "AttributeError", value |-> None,
             name |-> name]
  /\ UNCHANGED <<mlruns, registry, active_run_id, active_experiment_id, scope, proc>>

\* one caller at a time: experiments, runs in them, and deletions by name
NextDelete ==
  \/ \E name \in {"a", "b"} : GetOrCreateExperiment(name)
  \/ \E s \in Scopes, e \in {str(0), str(1)} : StartRun(s, e, <<10>>)
  \/ \E s \in Scopes : ExitRun(s, "return")
  \/ \E name \in Names : DeleteExperiment(name)

SpecDelete == Init /\ [][NextDelete]_vars

\* one caller at a time: a run that logs a model, registrations of it as "m"
\* (and of the artifacts directory, which leave a version directory without
\* files), and the listing of the versions of "m"
NextVersions ==
  \/ StartRun(1, str(0), <<10>>)
  \/ LogModel(1, "objA", "model.pkl")
  \/ \E artifact_name \in {"model.pkl", ""}, now \in Timestamps :
       /\ Cardinality(existing_versions(registry, "m")) < MaxLatest
       /\ register_model(<<10>>, artifact_name, "m", NoTags, now)
  \/ GetModelVersions("m")

SpecVersions == Init /\ [][NextVersions]_vars

\* one RuneLog object, one caller at a time: every operation. NextRuns,
\* NextExp and NextReg are the parts of it that the properties below are
\* checked on.
Next ==
  \/ NextRuns
  \/ NextExp
  \/ NextReg
  \/ NextLog
  \/ NextArt
  \/ NextRegErr
  \/ NextLatest
  \/ NextLoadErr
  \/ NextTags
  \/ NextTagCli
  \/ \E name \in LoadNames : GetModelVersions(name)
  \/ \E run_id \in LookupRunIds : GetRun(run_id)
  \/ \E e \in ResultIds : LoadResults(e)

Spec == Init /\ [][Next]_vars

\* ------------------------------------------------------- concurrent callers
\* Several processes (or threads) call into stores opened on the same root.
\* Each call is a sequence of steps, one per access to the file system that
\* another caller can observe or disturb; process p makes one call.

\* a root on which the run <<10>> of the default experiment has logged a model
\* and ended: what "with start_run(): log_model(objA, 'model.pkl')" leaves
StoreWithModel ==
  LET uid == <<10>>
      run_path == get_run_path(str(0), uid)
      meta == [run_id |-> uid, experiment_id |-> str(0), status |-> "RUNNING"]
      fs0 == WriteExperimentMeta(MakeExperimentDir(EmptyMlruns, NewExperimentId(EmptyMlruns)),
                                 NewExperimentId(EmptyMlruns), "default")
      fs1 == WriteRunMeta(MakeRunDirs(fs0, run_path), run_path, meta)
      fs2 == [fs1 EXCEPT !.runs[run_path].artifacts = Put(@, "model.pkl", dump("objA"))]
  IN  WriteRunMeta(fs2, run_path, [meta EXCEPT !.status = FinalStatus("return")])

InitConc ==
  /\ mlruns = StoreWithModel
  /\ registry = EmptyRegistry
  /\ active_run_id = None
  /\ active_experiment_id = None
  /\ scope = [s \in Scopes |-> IdleScope]
  /\ proc = [p \in Procs |-> IdleProc]
  /\ ret = NoRet

Return(p, result, value) ==
  [proc EXCEPT ![p].pc = "done", ![p].result = result, ![p].value = value]

\* get_or_create_experiment(name), lines 69-74: the scan for the name, which
\* returns at the first record of that name and raises at the first file that
\* is not JSON, whichever os.listdir gives first
GceScan(p, name) ==
  /\ proc[p].pc = "idle"
  /\ \/ \E e \in ExperimentsNamed(mlruns, name) :
            proc' = [Return(p, "ok", e) EXCEPT ![p].op = "get_or_create_experiment",
                                               ![p].name = name]
     \/ /\ Unparsable(mlruns) # {}
        /\ proc' = [Return(p, "JSONDecodeError", None) EXCEPT
                      ![p].op = "get_or_create_experiment", ![p].name = name]
     \/ /\ ExperimentsNamed(mlruns, name) = {}
        /\ Unparsable(mlruns) = {}
        /\ proc' = [proc EXCEPT ![p].pc = "gce_alloc", ![p].op = "get_or_create_experiment",
                                ![p].name = name]
  /\ UNCHANGED <<mlruns, registry, active_run_id, active_experiment_id, scope, ret>>

\* line 76: experiment_id = str(len(os.listdir(self._mlruns_dir)))
GceAlloc(p) ==
  /\ proc[p].pc = "gce_alloc"
  /\ proc' = [proc EXCEPT ![p].pc = "gce_mkdir", ![p].local = NewExperimentId(mlruns)]
  /\ UNCHANGED <<mlruns, registry, active_run_id, active_experiment_id, scope, ret>>

\* lines 77-78: os.makedirs(experiment_path, exist_ok=True)
GceMkdir(p) ==
  /\ proc[p].pc = "gce_mkdir"
  /\ mlruns' = MakeExperimentDir(mlruns, proc[p].local)
  /\ proc' = [proc EXCEPT ![p].pc = "gce_write"]
  /\ UNCHANGED <<registry, active_run_id, active_experiment_id, scope, ret>>

\* lines 80-84: meta.json is written and the id returned
GceWrite(p) ==
  /\ proc[p].pc = "gce_write"
  /\ mlruns' = WriteExperimentMeta(mlruns, proc[p].local, proc[p].name)
  /\ proc' = Return(p, "ok", proc[p].local)
  /\ UNCHANGED <<registry, active_run_id, active_experiment_id, scope, ret>>

\* register_model, lines 354-377: the run and its artifact are looked up, the
\* model directory is made and the new version number is computed
RegResolve(p, run_id, artifact_name, model_name) ==
  /\ proc[p].pc = "idle"
  /\ LET call == [proc EXCEPT ![p].op = "register_model", ![p].name = model_name,
                              ![p].run_id = run_id]
     IN  IF FindRun(mlruns, run_id) = {}
         THEN /\ proc' = [call EXCEPT ![p].pc = "done", ![p].result = "RunNotFound"]
              /\ UNCHANGED registry
         ELSE \E e \in FindRun(mlruns, run_id) :
                IF artifact_name \notin DOMAIN mlruns.runs[<<e, run_id>>].artifacts
                THEN /\ proc' = [call EXCEPT ![p].pc = "done", ![p].result = "ArtifactNotFound"]
                     /\ UNCHANGED registry
                ELSE /\ registry' = MakeModelDir(registry, model_name)
                     /\ proc' = [call EXCEPT ![p].pc = "reg_mkdir",
                                             ![p].src = <<<<e, run_id>>, artifact_name>>,
                                             ![p].local = new_version(registry, model_name)]
  /\ UNCHANGED <<mlruns, active_run_id, active_experiment_id, scope, ret>>

\* lines 379-380: os.makedirs(version_path, exist_ok=True)
RegMkdir(p) ==
  /\ proc[p].pc = "reg_mkdir"
  /\ registry' = MakeVersionDir(registry, proc[p].name, proc[p].local)
  /\ proc' = [proc EXCEPT ![p].pc = "reg_copy"]
  /\ UNCHANGED <<mlruns, active_run_id, active_experiment_id, scope, ret>>

\* line 383: the artifact is copied to version_path/model.joblib
RegCopy(p) ==
  /\ proc[p].pc = "reg_copy"
  /\ registry' = CopyModel(registry, proc[p].name, proc[p].local,
                           mlruns.runs[proc[p].src[1]].artifacts[proc[p].src[2]])
  /\ proc' = [proc EXCEPT ![p].pc = "reg_meta"]
  /\ UNCHANGED <<mlruns, active_run_id, active_experiment_id, scope, ret>>

\* lines 385-398: meta.json is written and the version returned
RegMeta(p, now) ==
  /\ proc[p].pc = "reg_meta"
  /\ registry' = WriteVersionMeta(registry, proc[p].name, proc[p].local, proc[p].run_id,
                                  now, NoTags)
  /\ proc' = Return(p, "ok", proc[p].local)
  /\ UNCHANGED <<mlruns, active_run_id, active_experiment_id, scope, ret>>

NextConc ==
  \/ \E p \in Procs, name \in Names : GceScan(p, name)
  \/ \E p \in Procs : GceAlloc(p)
  \/ \E p \in Procs : GceMkdir(p)
  \/ \E p \in Procs : GceWrite(p)
  \/ \E p \in Procs, run_id \in RunIds, a \in ArtifactNames, m \in ModelNames :
       RegResolve(p, run_id, a, m)
  \/ \E p \in Procs : RegMkdir(p)
  \/ \E p \in Procs : RegCopy(p)
  \/ \E p \in Procs, now \in Timestamps : RegMeta(p, now)

SpecConc == InitConc /\ [][NextConc]_vars

\* processes that register "m" step by step, and a caller that loads it in
\* between
NextLoadConc ==
  \/ \E p \in Procs : RegResolve(p, <<10>>, "model.pkl", "m")
  \/ \E p \in Procs : RegMkdir(p)
  \/ \E p \in Procs : RegCopy(p)
  \/ \E p \in Procs, now \in Timestamps : RegMeta(p, now)
  \/ \E version \in LoadVersions : LoadRegisteredModel("m", version)

SpecLoadConc == InitConc /\ [][NextLoadConc]_vars

\* a registry in which the run <<10>> has been registered as version 1 of "m"
RegistryWithModel ==
  WriteVersionMeta(CopyModel(MakeVersionDir(MakeModelDir(EmptyRegistry, "m"), "m", str(1)),
                             "m", str(1), dump("objA")),
                   "m", str(1), <<10>>, "t1", NoTags)

InitTagsConc ==
  /\ mlruns = StoreWithModel
  /\ registry = RegistryWithModel
  /\ active_run_id = None
  /\ active_experiment_id = None
  /\ scope = [s \in Scopes |-> IdleScope]
  /\ proc = [p \in Procs |-> IdleProc]
  /\ ret = NoRet

\* the number of characters of the tags in the text json.dump(meta, f,
\* indent=4) writes: "{}", or one line of 8 spaces, "key": "value" for each
\* tag, the lines joined by ",\n", between "{\n" and "\n    }". The rest of
\* the text is the same for every dump of one version's meta.
RECURSIVE tags_text_len(_)
tags_text_len(tags) ==
  IF DOMAIN tags = {} THEN 2
  ELSE LET k == CHOOSE key \in DOMAIN tags : TRUE
           rest == [key \in DOMAIN tags \ {k} |-> tags[key]]
           line == 8 + Len(k) + 4 + Len(tags[k]) + 2
       IN  IF DOMAIN rest = {} THEN 2 + line + 6
           ELSE line + 2 + tags_text_len(rest)

\* the record dumped into a meta.json, without the fields of a damaged file
dumped(content) == [k \in DOMAIN content \ {"size", "intact"} |-> content[k]]

text_len(content) == tags_text_len(dumped(content).tags)
file_size(content) == IF parses(content) THEN text_len(content) ELSE content.size
intact_len(content) == IF parses(content) THEN text_len(content) ELSE content.intact

\* the file that holds intact characters of the dump of meta in size characters
FileOf(meta, size, intact) ==
  IF size = text_len(meta) /\ intact = text_len(meta) THEN meta
  ELSE [k \in DOMAIN meta \cup {"size", "intact"} |->
          IF k = "size" THEN size ELSE IF k = "intact" THEN intact ELSE meta[k]]

\* f.seek(0); json.dump(meta, f) and the flush of the buffer: the text is
\* written over the start of the file, what the file held beyond it stays
write_over(content, meta) ==
  FileOf(meta, IF file_size(content) > text_len(meta) THEN file_size(content)
               ELSE text_len(meta),
         text_len(meta))

\* f.truncate() at the position pos: the file ends there
truncate_at(content, pos) ==
  FileOf(dumped(content), pos,
         IF intact_len(content) < pos THEN intact_len(content) ELSE pos)

\* add_model_tags, lines 451-463: the test of the path, open(meta_path, "r+"),
\* json.load and the update of the tags in memory
TagsLoad(p, model_name, version, tags) ==
  /\ proc[p].pc = "idle"
  /\ LET call == [proc EXCEPT ![p].op = "add_model_tags", ![p].name = model_name,
                              ![p].src = version]
     IN  IF <<model_name, version>> \notin DOMAIN registry.meta
         THEN proc' = [call EXCEPT ![p].pc = "done", ![p].result = "ModelVersionNotFound"]
         ELSE LET meta == registry.meta[<<model_name, version>>]
              IN  IF ~parses(meta)
                  THEN proc' = [call EXCEPT ![p].pc = "done",
                                            ![p].result = "JSONDecodeError"]
                  ELSE proc' = [call EXCEPT
                                  ![p].pc = "tags_write",
                                  ![p].local =
                                     [k \in DOMAIN meta \cup {"tags"} |->
                                        IF k = "tags"
                                        THEN update(stored_tags(registry, model_name,
                                                                version), tags)
                                        ELSE meta[k]]]
  /\ UNCHANGED <<mlruns, registry, active_run_id, active_experiment_id, scope, ret>>

\* lines 465-467: f.seek(0), json.dump into the buffer, and the write of the
\* buffer with which f.truncate() begins
TagsWrite(p) ==
  /\ proc[p].pc = "tags_write"
  /\ registry' = [registry EXCEPT !.meta[<<proc[p].name, proc[p].src>>] =
                                     write_over(@, proc[p].local)]
  /\ proc' = [proc EXCEPT ![p].pc = "tags_truncate"]
  /\ UNCHANGED <<mlruns, active_run_id, active_experiment_id, scope, ret>>

\* line 467: f.truncate() cuts the file at the end of the text it wrote
TagsTruncate(p) ==
  /\ proc[p].pc = "tags_truncate"
  /\ registry' = [registry EXCEPT !.meta[<<proc[p].name, proc[p].src>>] =
                                     truncate_at(@, text_len(proc[p].local))]
  /\ proc' = Return(p, "ok", None)
  /\ UNCHANGED <<mlruns, active_run_id, active_experiment_id, scope, ret>>

\* processes that update the tags of m/1 step by step, and a caller that
\* reads them in between
NextTagsConc ==
  \/ \E p \in Procs, tags \in TagUpdates : TagsLoad(p, "m", str(1), tags)
  \/ \E p \in Procs : TagsWrite(p)
  \/ \E p \in Procs : TagsTruncate(p)
  \/ GetModelTags("m", str(1))

SpecTagsConc == InitTagsConc /\ [][NextTagsConc]_vars

\* one caller at a time on a registry that holds m/1: further registrations
\* of "m" and the lookups by model name and version
NextLookup ==
  \/ \E now \in Timestamps : RegisterModel(<<10>>, "model.pkl", "m", NoTags, now)
  \/ \E name \in LoadNames, version \in LoadVersions : LoadRegisteredModel(name, version)
  \/ \E name \in LoadNames, version \in TagVersions : GetModelTags(name, version)
  \/ \E name \in LoadNames, version \in TagVersions, tags \in TagUpdates :
       AddModelTags(name, version, tags)
  \/ \E name \in LoadNames : GetModelVersions(name)

SpecLookup == InitTagsConc /\ [][NextLookup]_vars

\* on a registry that holds m/1: processes that register "m" step by step, and
\* a caller that loads the latest version and lists the versions in between
NextRegRead ==
  \/ \E p \in Procs : RegResolve(p, <<10>>, "model.pkl", "m")
  \/ \E p \in Procs : RegMkdir(p)
  \/ \E p \in Procs : RegCopy(p)
  \/ \E p \in Procs, now \in Timestamps : RegMeta(p, now)
  \/ LoadRegisteredModel("m", latest)
  \/ GetModelVersions("m")

SpecRegRead == InitTagsConc /\ [][NextRegRead]_vars

\* lines 80-81: open(meta.json, "w") makes the file, or empties it
GceOpen(p) ==
  /\ proc[p].pc = "gce_write"
  /\ mlruns' = [mlruns EXCEPT !.meta = Put(@, proc[p].local, EmptyFile)]
  /\ proc' = [proc EXCEPT ![p].pc = "gce_dump"]
  /\ UNCHANGED <<registry, active_run_id, active_experiment_id, scope, ret>>

\* lines 81-84: json.dump, the file is closed and the id returned
GceDump(p) ==
  /\ proc[p].pc = "gce_dump"
  /\ mlruns' = WriteExperimentMeta(mlruns, proc[p].local, proc[p].name)
  /\ proc' = Return(p, "ok", proc[p].local)
  /\ UNCHANGED <<registry, active_run_id, active_experiment_id, scope, ret>>

\* processes that create experiments step by step, the meta.json written in
\* two steps, and a caller that lists the experiments in between
NextListExp ==
  \/ \E p \in Procs, name \in Names : GceScan(p, name)
  \/ \E p \in Procs : GceAlloc(p)
  \/ \E p \in Procs : GceMkdir(p)
  \/ \E p \in Procs : GceOpen(p)
  \/ \E p \in Procs : GceDump(p)
  \/ ListExperiments

SpecListExp == Init /\ [][NextListExp]_vars

\* the values datetime.now().isoformat() returns to two registrations that
\* are under way at the same time
RegTimes == {"t1", "t2"}

\* processes that register "m" step by step from the run <<10>>, and a caller
\* that updates the tags of the versions in between
NextRegAgain ==
  \/ \E p \in Procs : RegResolve(p, <<10>>, "model.pkl", "m")
  \/ \E p \in Procs : RegMkdir(p)
  \/ \E p \in Procs : RegCopy(p)
  \/ \E p \in Procs, now \in RegTimes : RegMeta(p, now)
  \/ \E version \in TagVersions, tags \in TagUpdates : AddModelTags("m", version, tags)

SpecRegAgain == InitConc /\ [][NextRegAgain]_vars

\* ------------------------------------------------------------------- claims
\* the versions of a model name that have a directory, as numbers
VersionNumbers(model_name) ==
  {int(mv[2]) : mv \in {x \in registry.versions : x[1] = model_name}}

\* the processes whose call is op with this name argument
Callers(op, name) == {p \in Procs : proc[p].op = op /\ proc[p].name = name}

\* C1: N concurrent register_model calls on one model name return exactly the
\* versions 1..N: once all of them have returned, the versions returned are
\* pairwise distinct and none of 1..N is skipped.
C1_ConcurrentVersionsDistinct ==
  \A m \in ModelNames :
    LET calls == Callers("register_model", m)
    IN  (\A p \in calls : proc[p].pc = "done" /\ proc[p].result = "ok")
          => {proc[p].value : p \in calls} = {str(i) : i \in 1..Cardinality(calls)}

\* C2: after any sequence of successful sequential register_model calls the
\* versions of a model name are exactly 1..k, and a registration that finds k
\* versions returns k + 1 and adds nothing else.
C2_SequentialVersionsGapFree ==
  /\ [](\A m \in ModelNames :
          /\ VersionNumbers(m) = 1..Cardinality(existing_versions(registry, m))
          /\ \A v \in existing_versions(registry, m) : str(int(v)) = v)
  /\ [][\A run_id \in RunIds, a \in ArtifactNames, m \in ModelNames, now \in Timestamps :
          (RegisterModel(run_id, a, m, NoTags, now) /\ ret'.result = "ok")
            => /\ ret'.value = str(Cardinality(existing_versions(registry, m)) + 1)
               /\ existing_versions(registry', m)
                    = existing_versions(registry, m) \cup {ret'.value}]_vars

\* C2's case: the second registration of model m has returned version 2
C2_Witness ==
  /\ ret.op = "register_model" /\ ret.result = "ok" /\ ret.value = str(2)
  /\ existing_versions(registry, "m") = {str(1), str(2)}
  /\ <<"m", str(2)>> \in DOMAIN registry.meta

\* C3: experiment ids are allocated without collision under concurrent
\* callers: once the concurrent get_or_create_experiment calls have returned,
\* calls with different names have different ids and each finds its record
\* (id, name), and every name that was asked for has exactly one record.
C3_ConcurrentExperimentIds ==
  LET calls == {p \in Procs : proc[p].op = "get_or_create_experiment"}
  IN  (\A p \in calls : proc[p].pc = "done")
        => /\ \A p, q \in calls :
                proc[p].name # proc[q].name => proc[p].value # proc[q].value
           /\ \A p \in calls :
                /\ proc[p].value \in DOMAIN mlruns.meta
                /\ mlruns.meta[proc[p].value]
                     = [experiment_id |-> proc[p].value, name |-> proc[p].name]
                /\ Cardinality(ExperimentsNamed(mlruns, proc[p].name)) = 1

\* C4: get_or_create_experiment is idempotent and keeps one record per name:
\* when a call returns, the name has exactly one record, under the id returned
\* (so a second call returns the same id), and every name that had a record
\* keeps it under the same id.
C4_OneRecordPerName ==
  [][\A name \in Names :
       GetOrCreateExperiment(name)
         => /\ ExperimentsNamed(mlruns', name) = {ret'.value}
            /\ \A n \in Names :
                 ExperimentsNamed(mlruns, n) # {}
                   => ExperimentsNamed(mlruns', n) = ExperimentsNamed(mlruns, n)]_vars

\* C5: while two runs are open on one store, a logging call made from the code
\* of frame c does not fail for want of an active run and changes no run
\* directory but the one of c's run, whatever the other frame did before.
C5_LogsStayInCallersRun ==
  [][\A c \in Scopes :
       (scope[c].pc = "open" /\ LogCall(c))
         => /\ ret'.result # "NoActiveRun"
            /\ \A rp \in DOMAIN mlruns.runs :
                 rp # scope[c].run_path => mlruns'.runs[rp] = mlruns.runs[rp]]_vars

\* the persisted status of the run of frame s
StatusOf(s) == mlruns.runs[scope[s].run_path].meta.status

\* C6: the run of a frame is persisted RUNNING for as long as the frame is
\* open, and FINISHED once the frame has ended by a return.
C6_RunningUntilExit ==
  \A s \in Scopes :
    /\ scope[s].pc = "open" => StatusOf(s) = "RUNNING"
    /\ (scope[s].pc = "closed" /\ scope[s].exit = "return") => StatusOf(s) = "FINISHED"

\* C7 as stated: a with-block left by an uncaught error persists FAILED.
C7_ErrorExitPersistsFailed ==
  [][\A s \in Scopes :
       ExitRun(s, "raise") => mlruns'.runs[scope[s].run_path].meta.status = "FAILED"]_vars

\* C7 as amended: a with-block left by an uncaught error persists FINISHED,
\* the status a return persists.
C7_ErrorExitPersistsFinished ==
  [][\A s \in Scopes :
       ExitRun(s, "raise") => mlruns'.runs[scope[s].run_path].meta.status = "FINISHED"]_vars

\* C7's case: a frame was left by an error and its run is persisted FINISHED
C7_Witness ==
  \E s \in Scopes :
    /\ scope[s].pc = "closed" /\ scope[s].exit = "raise"
    /\ StatusOf(s) = "FINISHED"
    /\ ret.op = "end_run"

\* C8: finalization runs on every exit path: when a with-block ends, by a
\* return or by an error, the status persisted for its run is terminal and
\* both active ids of the store are cleared.
C8_FinalizationOnEveryExit ==
  [][\A s \in Scopes, how \in Exits :
       ExitRun(s, how)
         => /\ mlruns'.runs[scope[s].run_path].meta.status \in {"FINISHED", "FAILED"}
            /\ active_run_id' = None
            /\ active_experiment_id' = None]_vars

\* C8's case: one frame has ended by a return and one by an error, the second
\* just now, and the store has no active run
C8_Witness ==
  /\ ret.op = "end_run"
  /\ active_run_id = None /\ active_experiment_id = None
  /\ \E s, t \in Scopes :
       /\ scope[s].pc = "closed" /\ scope[s].exit = "return"
       /\ scope[t].pc = "closed" /\ scope[t].exit = "raise"
       /\ scope[s].run_path # scope[t].run_path
       /\ StatusOf(s) = "FINISHED" /\ StatusOf(t) = "FINISHED"

\* no with-block of start_run is open
NoRunOpen == \A s \in Scopes : scope[s].pc # "open"

\* C9: a logging call made while no run is open (before any start_run, or
\* after the with-block has ended) fails with NoActiveRun and writes nothing.
C9_LogOutsideRunFails ==
  [][\A c \in Scopes :
       (NoRunOpen /\ LogCall(c))
         => /\ ret'.result = "NoActiveRun"
            /\ mlruns' = mlruns /\ registry' = registry]_vars

\* C9's case: log_artifact was called after the only run had ended, and raised
C9_Witness ==
  /\ NoRunOpen
  /\ \E s \in Scopes : scope[s].pc = "closed"
  /\ \A s \in Scopes : scope[s].pc = "closed" => mlruns.runs[scope[s].run_path].artifacts = <<>>
  /\ ret.op = "log_artifact" /\ ret.result = "NoActiveRun"

\* C10: run ids are globally unique: the ids yielded by start_run, in whatever
\* experiments, are pairwise distinct.
C10_RunIdsUnique ==
  \A s, t \in Scopes :
    (s # t /\ scope[s].pc # "idle" /\ scope[t].pc # "idle")
      => scope[s].yielded # scope[t].yielded

\* what get_run_details may return for run_id on the .mlruns fs
NoDetails == [params |-> <<>>, metrics |-> <<>>, artifacts |-> {}]

\* C11: what get_run_details reads back of a run is exactly what was logged
\* in it, step by step: a run that has just started reads back empty; a
\* log_param(key, value) or log_metric(key, value) that succeeds changes what
\* is read back of the active run to the previous params (metrics) with key
\* set to value, and nothing else; the end of a run changes nothing of what is
\* read back of it.
C11_RoundTrip ==
  [][/\ \A s \in Scopes, uid \in RunIds :
          StartRun(s, str(0), uid) => RunDetails(mlruns', uid) = {NoDetails}
     /\ \A c \in Scopes, key \in ParamKeys, value \in Values :
          (LogParam(c, key, value) /\ ret'.result = "ok")
            => \A old \in RunDetails(mlruns, active_run_id) :
                 RunDetails(mlruns', active_run_id)
                   = {[old EXCEPT !.params = Put(@, key, value)]}
     /\ \A c \in Scopes, key \in MetricKeys, value \in Values :
          (LogMetric(c, key, value) /\ ret'.result = "ok")
            => \A old \in RunDetails(mlruns, active_run_id) :
                 RunDetails(mlruns', active_run_id)
                   = {[old EXCEPT !.metrics = Put(@, key, value)]}
     /\ \A s \in Scopes :
          ExitRun(s, "return")
            => RunDetails(mlruns', scope[s].yielded) = RunDetails(mlruns, scope[s].yielded)]_vars

\* C12: params and metrics are last-write-wins maps: a log_param (log_metric)
\* of a key the active run already holds leaves the run with the same files,
\* the file of the key holding the new value and every other file as it was,
\* and get_run_details reads the new value under the one entry of that key.
C12_LastWriteWins ==
  [][/\ \A c \in Scopes, key \in ParamKeys, value \in Values :
          (LogParam(c, key, value) /\ ret'.result = "ok"
             /\ json_file(key) \in DOMAIN ActiveRun(mlruns).params)
            => /\ ActiveRun(mlruns') = [ActiveRun(mlruns) EXCEPT
                                          !.params[json_file(key)] = json_dump_value(value)]
               /\ \A old \in RunDetails(mlruns, active_run_id),
                     new \in RunDetails(mlruns', active_run_id) :
                    /\ DOMAIN new.params = DOMAIN old.params
                    /\ new.params[splitext_root(json_file(key))] = value
     /\ \A c \in Scopes, key \in MetricKeys, value \in Values :
          (LogMetric(c, key, value) /\ ret'.result = "ok"
             /\ json_file(key) \in DOMAIN ActiveRun(mlruns).metrics)
            => /\ ActiveRun(mlruns') = [ActiveRun(mlruns) EXCEPT
                                          !.metrics[json_file(key)] = json_dump_value(value)]
               /\ \A old \in RunDetails(mlruns, active_run_id),
                     new \in RunDetails(mlruns', active_run_id) :
                    /\ DOMAIN new.metrics = DOMAIN old.metrics
                    /\ new.metrics[splitext_root(json_file(key))] = value]_vars

\* C12's case: in the only run there is, "lr" was logged a second time (it
\* holds SecondValue) while the metric "acc" still holds the value of its
\* first write
C12_Witness ==
  /\ ret.op = "log_param" /\ ret.result = "ok"
  /\ active_run_id # None /\ Cardinality(DOMAIN mlruns.runs) = 1
  /\ ActiveRun(mlruns).params = (json_file(<<"l", "r">>) :> json_dump_value(SecondValue))
  /\ ActiveRun(mlruns).metrics = (json_file(<<"a", "c", "c">>) :> json_dump_value(FirstValue))

\* the key under which get_run_details returns what log_param(key, ...) wrote
KeyReadBack(key) == splitext_root(json_file(key))

C14_MissingArtifactFails ==
  [][\A c \in Scopes :
       (active_run_id # None /\ LogArtifact(c, MissingPath))
         => /\ ret'.result = "ArtifactNotFound"
            /\ mlruns' = mlruns /\ registry' = registry
            /\ active_run_id' = active_run_id
            /\ active_experiment_id' = active_experiment_id
            /\ scope' = scope]_vars

\* C14's case: log_artifact has raised ArtifactNotFound in a run that is
\* still active and RUNNING and holds the artifact logged before, and no more
C14_Witness ==
  /\ ret.op = "log_artifact" /\ ret.result = "ArtifactNotFound"
  /\ active_run_id # None
  /\ ActiveRun(mlruns).meta.status = "RUNNING"
  /\ ActiveRun(mlruns).artifacts = ("model.pkl" :> LocalFiles[<<"a", "model.pkl">>])

\* C15: log_artifact stores the file under its base name: after the call the
\* artifacts of the active run are the ones before with the base name holding
\* the content of the local file, get_run_details lists these names, and when
\* the base name was there already the names are the same as before.
C15_ArtifactByBaseName ==
  [][\A c \in Scopes, path \in DOMAIN LocalFiles :
       (LogArtifact(c, path) /\ ret'.result = "ok")
         => /\ ActiveRun(mlruns') = [ActiveRun(mlruns) EXCEPT
                                       !.artifacts = Put(@, basename(path), LocalFiles[path])]
            /\ ActiveRun(mlruns').artifacts[basename(path)] = LocalFiles[path]
            /\ basename(path) \in DOMAIN ActiveRun(mlruns).artifacts
                 => DOMAIN ActiveRun(mlruns').artifacts = DOMAIN ActiveRun(mlruns).artifacts
            /\ \A d \in RunDetails(mlruns', active_run_id) :
                 d.artifacts = DOMAIN ActiveRun(mlruns).artifacts \cup {basename(path)}]_vars

\* C15's case: b/model.pkl was logged over a/model.pkl, and get_run_details
\* lists the one name
C15_Witness ==
  /\ ret.op = "get_run_details" /\ ret.value # None
  /\ ret.value.artifacts = {"model.pkl"}
  /\ \E rp \in DOMAIN mlruns.runs :
       /\ ret.value \in RunDetails(mlruns, rp[2])
       /\ mlruns.runs[rp].artifacts = ("model.pkl" :> LocalFiles[<<"b", "model.pkl">>])

\* C16: register_model fails with RunNotFound when no experiment holds a run
\* run_id, and with ArtifactNotFound when the run is there and artifact_name is
\* not among its artifacts; either way the registry is as it was before the
\* call.
C16_RegisterFailsClean ==
  [][\A run_id \in RunIds, a \in RegArtifacts, now \in Timestamps :
       RegisterModel(run_id, a, "m", NoTags, now)
         => /\ FindRun(mlruns, run_id) = {}
                 => (ret'.result = "RunNotFound" /\ registry' = registry)
            /\ (FindRun(mlruns, run_id) # {}
                  /\ \A e \in FindRun(mlruns, run_id) :
                       a \notin DOMAIN mlruns.runs[<<e, run_id>>].artifacts)
                 => (ret'.result = "ArtifactNotFound" /\ registry' = registry)]_vars

C18_LoadFailures ==
  [][\A name \in LoadNames, version \in LoadVersions :
       LoadRegisteredModel(name, version)
         => /\ name \notin registry.models => ret'.result = "ModelNotFound"
            /\ (name \in registry.models
                  /\ existing_versions(registry, name) # {}
                  /\ version # latest
                  /\ version \notin existing_versions(registry, name))
                 => ret'.result = "ModelVersionNotFound"
            /\ registry' = registry]_vars

\* C19: load_registered_model of a model name that the registry knows and
\* that has no version fails with NoVersionsFound, for "latest" and for a
\* version asked for by name.
C19_NoVersionsFound ==
  [][\A version \in LoadVersions :
       (LoadRegisteredModel("m", version)
          /\ "m" \in registry.models /\ existing_versions(registry, "m") = {})
         => ret'.result = "NoVersionsFound"]_vars

\* the tags of a version as get_model_tags returns them
TagsOf(reg, model_name, version) == reg.meta[<<model_name, version>>].tags

\* C20: tag updates merge: after add_model_tags(m, v, T) the tags of the
\* version are the tags before overridden by T (the keys of T hold T's
\* values, every other key holds its value of before, no other key is
\* there), and nothing else of the registry has changed; so two updates with
\* disjoint keys leave the union of both.
C20_TagsMerge ==
  [][\A version \in TagVersions, tags \in TagUpdates :
       (AddModelTags("m", version, tags) /\ ret'.result = "ok")
         => LET old == TagsOf(registry, "m", version)
                new == TagsOf(registry', "m", version)
            IN  /\ DOMAIN new = DOMAIN old \cup DOMAIN tags
                /\ \A k \in DOMAIN tags : new[k] = tags[k]
                /\ \A k \in DOMAIN old \ DOMAIN tags : new[k] = old[k]
                /\ registry' = [registry EXCEPT !.meta[<<"m", version>>].tags = new]]_vars

\* C20's case: version 2 was registered without tags, "status" and "owner"
\* were set by two updates, and get_model_tags returns both; version 1 has
\* none
C20_Witness ==
  /\ ret.op = "get_model_tags" /\ ret.result = "ok"
  /\ ret.value = ("status" :> "prod") @@ ("owner" :> "a")
  /\ <<"m", str(2)>> \in DOMAIN registry.meta
  /\ TagsOf(registry, "m", str(2)) = ret.value
  /\ TagsOf(registry, "m", str(1)) = NoTags

\* C21: the command "tag" with --remove key (and nothing to add) leaves the
\* stored tags of the version without that key and with every other tag as
\* it was.
C21_TagRemoved ==
  [][\A version \in TagVersions, key \in {"status", "owner"} :
       (ManageTags("m", version, NoTags, {key}) /\ ret'.result = "ok")
         => LET old == TagsOf(registry, "m", version)
                new == TagsOf(registry', "m", version)
            IN  /\ key \notin DOMAIN new
                /\ DOMAIN new = DOMAIN old \ {key}
                /\ \A k \in DOMAIN new : new[k] = old[k]]_vars

\* the fields of a version's meta.json other than its tags
FixedFields == {"model_name", "version", "source_run_id", "registration_timestamp"}

\* C22: once register_model has returned version v for model m, no later step
\* of any operation changes the payload, model_name, version, source_run_id
\* (the run given at registration) or timestamp of (m, v).
C22_VersionImmutable ==
  [][\A p \in Procs :
       (proc[p].pc = "done" /\ proc[p].op = "register_model" /\ proc[p].result = "ok")
         => LET mv == <<proc[p].name, proc[p].value>>
            IN  /\ registry'.payload[mv] = registry.payload[mv]
                /\ \A k \in FixedFields : registry'.meta[mv][k] = registry.meta[mv][k]
                /\ registry'.meta[mv].source_run_id = proc[p].run_id]_vars

\* C23: a reader of a version's meta.json that runs while tag updates write
\* it gets a complete record: get_model_tags never fails to parse the file.
C23_ReaderSeesCompleteRecord ==
  ~(ret.op = "get_model_tags" /\ ret.result = "JSONDecodeError")

\* the add_model_tags calls on m/1
TagCalls == Callers("add_model_tags", "m")

\* C24: when concurrent add_model_tags calls on m/1 with different keys have
\* all returned, the tags of m/1 hold the keys of all of them.
C24_NoLostTagUpdate ==
  (/\ TagCalls = Procs
   /\ \A p \in Procs : proc[p].pc = "done" /\ proc[p].result = "ok")
    => \A p \in Procs :
         \A k \in DOMAIN proc[p].local.tags :
           k \in DOMAIN dumped(registry.meta[<<"m", str(1)>>]).tags

\* the exceptions of runelog.exceptions a registry lookup raises
RegistryErrors == {"ModelNotFound", "ModelVersionNotFound", "NoVersionsFound"}

\* model_name is no model of the registry, or version is no version of it
NoSuchVersion(model_name, version) ==
  model_name \notin registry.models \/ <<model_name, version>> \notin registry.versions

\* load_registered_model, called in the state a step starts from, and the
\* get_model_tags or add_model_tags call the step makes raise one of the
\* registry's exceptions for a model name or version that does not exist
LookupsRaise ==
  /\ \A name \in LoadNames, version \in LoadVersions :
       (name \notin registry.models \/ (version # latest /\ NoSuchVersion(name, version)))
         => load_registered_model(registry, name, version).result \in RegistryErrors
  /\ \A name \in LoadNames, version \in TagVersions :
       (/\ ret'.op = "get_model_tags"
        /\ GetModelTags(name, version)
        /\ NoSuchVersion(name, version))
         => ret'.result \in RegistryErrors
  /\ \A name \in LoadNames, version \in TagVersions, tags \in TagUpdates :
       (/\ ret'.op = "add_model_tags"
        /\ AddModelTags(name, version, tags)
        /\ NoSuchVersion(name, version))
         => ret'.result \in RegistryErrors /\ registry' = registry

\* C25: every lookup by a model name or version that does not exist
\* (load_registered_model, get_model_tags, add_model_tags, get_model_versions)
\* raises a typed error and returns no null or empty value.
C25_MissingRaises ==
  [][/\ LookupsRaise
     /\ \A name \in LoadNames :
          (/\ ret'.op = "get_model_versions"
           /\ GetModelVersions(name)
           /\ name \notin registry.models)
            => ret'.result \in RegistryErrors]_vars

\* C25 as the code has it: load_registered_model, get_model_tags and
\* add_model_tags raise a typed error for a model name or version that does
\* not exist; get_model_versions returns the empty list for a model name that
\* does not exist.
C25_MissingRaisesOrEmpty ==
  [][/\ LookupsRaise
     /\ \A name \in LoadNames :
          (/\ ret'.op = "get_model_versions"
           /\ GetModelVersions(name)
           /\ name \notin registry.models)
            => ret'.result = "ok" /\ ret'.value = <<>>]_vars

\* get_model_versions has returned the empty list while "m" has a version with
\* its meta.json: the name asked for was not "m", and is no model
C25_Witness ==
  /\ ret.op = "get_model_versions"
  /\ ret.result = "ok"
  /\ ret.value = <<>>
  /\ <<"m", str(1)>> \in DOMAIN registry.meta

\* C26: for a run_id that is the name of no run directory in any experiment,
\* get_run_details(run_id) and get_run(run_id) return None and do not raise.
C26_MissingRunIsNone ==
  \A run_id \in LookupRunIds :
    FindRun(mlruns, run_id) = {}
      => /\ get_run_details(mlruns, run_id) = {None}
         /\ get_run(mlruns, run_id) = {RunRet("ok", None)}

\* C27: load_results(experiment_id) raises ExperimentNotFound when no
\* experiment has that id (and, reading only, creates nothing).
C27_UnknownExperimentFails ==
  \A e \in ResultIds :
    e \notin mlruns.dirs
      => \A o \in load_results(mlruns, e) : o.result = "ExperimentNotFound"

\* the run directories of experiment e
RunsOf(e) == {key[2] : key \in {k \in DOMAIN mlruns.runs : k[1] = e}}

\* C28: load_results on an experiment that exists and has no run returns the
\* empty table and raises nothing.
C28_NoRunsEmptyTable ==
  \A e \in mlruns.dirs :
    RunsOf(e) = {}
      => \A o \in load_results(mlruns, e) : o.result = "ok" /\ o.value = EmptyFrame

\* load_results has returned the empty table for an experiment that exists
\* and has no run, while another experiment has one
C28_Witness ==
  /\ ret.op = "load_results"
  /\ ret.experiment_id \in mlruns.dirs
  /\ RunsOf(ret.experiment_id) = {}
  /\ ret.result = "ok"
  /\ ret.value = EmptyFrame
  /\ \E e \in mlruns.dirs : RunsOf(e) # {}

\* C29: the table load_results returns for an experiment has one row for each
\* run of the experiment, the index of the row is the id of the run, and the
\* rows are in ascending order of the run ids.
C29_OneRowPerRunSorted ==
  \A e \in mlruns.dirs :
    \A o \in load_results(mlruns, e) :
      /\ o.result = "ok"
      /\ Len(o.value.rows) = Cardinality(RunsOf(e))
      /\ {o.value.rows[i].index : i \in DOMAIN o.value.rows} = {StrCell(r) : r \in RunsOf(e)}
      /\ \A i, j \in DOMAIN o.value.rows :
           i < j => lex_less(o.value.rows[i].index[2], o.value.rows[j].index[2])

\* the columns of the run r of experiment e and what was logged for them: the
\* params under their prefixed names, the metrics under their names (what is
\* logged is what the files of the run hold: C12, C13)
LoggedColumns(e, r) ==
  {<<param_prefix \o splitext_root(f), NumCell(json_load_value(mlruns.runs[<<e, r>>].params[f]))>> :
     f \in DOMAIN mlruns.runs[<<e, r>>].params}
  \cup {<<splitext_root(f), NumCell(json_load_value(mlruns.runs[<<e, r>>].metrics[f]))>> :
          f \in DOMAIN mlruns.runs[<<e, r>>].metrics}

\* C30: in the table of an experiment the columns are the prefixed param
\* names and the metric names of its runs; the row of a run holds, in the
\* column of each param and metric logged in the run, the value logged, and
\* NaN in the columns it logged nothing for.
C30_ColumnsKeepValues ==
  \A e \in mlruns.dirs :
    \A o \in load_results(mlruns, e) :
      /\ o.result = "ok"
      /\ o.value.columns = UNION {{cv[1] : cv \in LoggedColumns(e, r)} : r \in RunsOf(e)}
      /\ \A r \in RunsOf(e) :
           \E i \in DOMAIN o.value.rows :
             /\ o.value.rows[i].index = StrCell(r)
             /\ \A cv \in LoggedColumns(e, r) :
                  /\ cv[1] \in o.value.columns
                  /\ o.value.rows[i].cells[cv[1]] = cv[2]
             /\ \A c \in o.value.columns :
                  c \notin {cv[1] : cv \in LoggedColumns(e, r)}
                    => o.value.rows[i].cells[c] = NaN

\* C31: get_model_versions("m") returns the meta.json of every registered
\* version of "m", each once, in descending order of the version numbers.
C31_VersionsNewestFirst ==
  (ret.op = "get_model_versions" /\ ret.result = "ok")
    => /\ {ret.value[i].version : i \in DOMAIN ret.value}
            = {mv[2] : mv \in {k \in DOMAIN registry.meta : k[1] = "m"}}
       /\ \A i \in DOMAIN ret.value :
            ret.value[i] = registry.meta[<<"m", ret.value[i].version>>]
       /\ \A i, j \in DOMAIN ret.value :
            i < j => int(ret.value[i].version) > int(ret.value[j].version)

\* the versions 9 and 10 are registered and a version directory without
\* meta.json lies among them; the listing has returned 10 before 9
C31_Witness ==
  /\ ret.op = "get_model_versions" /\ ret.result = "ok"
  /\ \E i \in DOMAIN ret.value :
       /\ i + 1 \in DOMAIN ret.value
       /\ ret.value[i].version = str(10)
       /\ ret.value[i + 1].version = str(9)
  /\ \E v \in existing_versions(registry, "m") : <<"m", v>> \notin DOMAIN registry.meta

\* the experiment records json.load can read
ReadableRecords ==
  {mlruns.meta[e] : e \in {d \in mlruns.dirs \cap DOMAIN mlruns.meta : parses(mlruns.meta[d])}}

\* C32: list_experiments does not fail when the meta.json of an experiment is
\* not readable as JSON: it returns the records of all the other experiments.
C32_ListSkipsCorrupted ==
  \A o \in list_experiments(mlruns) :
    /\ o.result = "ok"
    /\ o.value = ReadableRecords

\* C33: delete_experiment(name) ends in one of two ways: it removes the
\* experiment (afterwards no record carries the name and no directory of it is
\* left), or it fails with ExperimentNotFound for a name no experiment has.
C33_DeleteRemovesOrNotFound ==
  ret.op = "delete_experiment" =>
    /\ ret.result \in {"ok", "ExperimentNotFound"}
    /\ ExperimentsNamed(mlruns, ret.name) = {}

\* C34: get_model_tags and add_model_tags on a model name and version that
\* have no meta.json fail with ModelVersionNotFound, and the add_model_tags
\* call leaves the registry as it was: no file made, no version changed.
C34_TagsOfMissingVersionFail ==
  [][/\ \A name \in LoadNames, version \in MissingVersions :
          (/\ ret'.op = "get_model_tags"
           /\ GetModelTags(name, version)
           /\ <<name, version>> \notin DOMAIN registry.meta)
            => ret'.result = "ModelVersionNotFound"
     /\ \A name \in LoadNames, version \in MissingVersions, tags \in TagUpdates :
          (/\ ret'.op = "add_model_tags"
           /\ AddModelTags(name, version, tags)
           /\ <<name, version>> \notin DOMAIN registry.meta)
            => /\ ret'.result = "ModelVersionNotFound"
               /\ registry' = registry]_vars

\* C34's case: add_model_tags has failed with ModelVersionNotFound on a
\* registry where version 1 of "m" has its meta.json, without tags, and
\* version 2 is a directory that has none
C34_Witness ==
  /\ ret.op = "add_model_tags" /\ ret.result = "ModelVersionNotFound"
  /\ <<"m", str(1)>> \in DOMAIN registry.meta
  /\ stored_tags(registry, "m", str(1)) = NoTags
  /\ <<"m", str(2)>> \in registry.versions
  /\ <<"m", str(2)>> \notin DOMAIN registry.meta

\* C35: a run whose persisted status is FINISHED keeps that status, its params
\* and its metrics in every later step.
C35_FinishedIsFinal ==
  [][\A k \in DOMAIN mlruns.runs :
       mlruns.runs[k].meta.status = "FINISHED"
         => /\ k \in DOMAIN mlruns'.runs
            /\ mlruns'.runs[k].meta.status = "FINISHED"
            /\ mlruns'.runs[k].params = mlruns.runs[k].params
            /\ mlruns'.runs[k].metrics = mlruns.runs[k].metrics]_vars

\* C36: every run directory lies under an experiment id that has an
\* experiment record (a meta.json of the experiment); so start_run with an id
\* that no experiment has leaves no run.
C36_RunsUnderRecordedExperiment ==
  \A k \in DOMAIN mlruns.runs :
    /\ k[1] \in mlruns.dirs
    /\ k[1] \in DOMAIN mlruns.meta

\* C37: when get_or_create_experiment makes a record for a name that had
\* none, the id it returns is the name of no directory that was there before,
\* and load_results of that id is the empty table.
C37_NewExperimentIsEmpty ==
  [][\A name \in Names :
       (GetOrCreateExperiment(name) /\ ExperimentsNamed(mlruns, name) = {})
         => /\ ret'.value \notin mlruns.dirs
            /\ \A o \in load_results(mlruns', ret'.value) :
                 o.result = "ok" /\ o.value = EmptyFrame]_vars

\* C38: every row of the table load_results returns for experiment e is the
\* row of a run of e, and each of its cells that holds a value holds the value
\* logged under that name in that run of e, and each value logged in that run
\* of e is in the row: nothing is read from a run of another experiment.
C38_RowsReadFromOwnExperiment ==
  \A e \in mlruns.dirs :
    \A o \in load_results(mlruns, e) :
      o.result = "ok"
        => \A i \in DOMAIN o.value.rows :
             \E r \in RunsOf(e) :
               /\ o.value.rows[i].index = StrCell(r)
               /\ \A c \in o.value.columns :
                    o.value.rows[i].cells[c] # NaN
                      => <<c, o.value.rows[i].cells[c]>> \in LoggedColumns(e, r)
               /\ \A cv \in LoggedColumns(e, r) :
                    cv[1] \in o.value.columns /\ o.value.rows[i].cells[cv[1]] = cv[2]

\* C39: while registrations of "m" are under way, load_registered_model("m",
\* "latest") does not raise ModelVersionNotFound when some version of "m" has
\* its payload and its meta.json, and get_model_versions("m") lists only
\* versions that have both.
C39_ReaderDuringRegistration ==
  /\ (\E v \in existing_versions(registry, "m") :
        /\ <<"m", v>> \in DOMAIN registry.payload
        /\ <<"m", v>> \in DOMAIN registry.meta)
       => load_registered_model(registry, "m", latest).result # "ModelVersionNotFound"
  /\ (ret.op = "get_model_versions" /\ ret.result = "ok")
       => \A i \in DOMAIN ret.value :
            /\ <<"m", ret.value[i].version>> \in DOMAIN registry.payload
            /\ <<"m", ret.value[i].version>> \in DOMAIN registry.meta
====
